---- MODULE Spec2Model ----
(***************************************************************************)
(* Model of scripts/add_problem_text_to_frequency.py: the answer           *)
(* normalizer, the fuzzy matcher, the corpus indexer (build_lookup) and    *)
(* the row resolver / annotation run (main, replace_row).                  *)
(*                                                                         *)
(* Strings the matcher looks into are sequences of one-character strings.  *)
(* Each model character stands for one character class of the regular      *)
(* expressions of the source:                                              *)
(*   "a"  a label glyph that is also a Latin letter   [a-e]                *)
(*   "x"  a Latin letter that is no label glyph       [f-zA-Z]             *)
(*   "K"  an ideograph                                [一-龥]               *)
(*   "."  a separator glyph                           [.．、:：]            *)
(*   "("  an opening parenthesis                      [（(]                 *)
(*   ")"  a closing parenthesis                       [）)]                 *)
(*   " "  whitespace                                  \s                   *)
(***************************************************************************)
EXTENDS Integers, Sequences, FiniteSets, TLC

VARIABLES
    row_ans,      \* answers_match: the row's answer text (first argument)
    cand_ans,     \* answers_match: the candidate's answer text (second argument)
    prev_ans,     \* the value of row_ans before the last normalize call
    norm_calls,   \* how many times normalize_answer_for_match has been applied
    matched,      \* whether answers_match has been called on the pair
    match_fwd,    \* answers_match(row_ans, cand_ans), FALSE before the call
    match_rev,    \* answers_match(cand_ans, row_ans), FALSE before the call
    corpus,       \* the explanation files under the root, in sorted path order
    doc_idx,      \* build_lookup: how many files the loop has gone through
    by_qnum,      \* build_lookup: (exam, question number) -> entries
    by_exam,      \* build_lookup: exam -> entries with their question number
    content,      \* the text of the frequency-index file
    work,         \* main: content after the strip of the attached lines
    out,          \* main: new_content, as far as pattern.sub has built it
    line_idx,     \* main: how many lines of work pattern.sub has gone through
    last,         \* the last call of replace_row: its row and what it returned
    runs,         \* how many runs of main have written the file
    pc            \* where the run is

pureVars == <<row_ans, cand_ans, prev_ans, norm_calls, matched, match_fwd, match_rev>>

indexVars == <<corpus, doc_idx, by_qnum, by_exam>>

mainVars == <<content, work, out, line_idx, last, runs>>

vars == <<pureVars, indexVars, mainVars, pc>>

----------------------------------------------------------------------------
(* Bounds of the model *)

MaxNormLen == 5
MaxRowLen == 3
MaxCandLen == 5
MaxChunks == 3
MaxFreqLines == 3
MaxRuns == 2

----------------------------------------------------------------------------
(* Character classes *)

LabelGlyphs == {"a"}
SepGlyphs == {"."}
Whitespace == {" "}
OpenParens == {"("}
CloseParens == {")"}
LatinLetters == {"a", "x"}
Ideographs == {"K"}

Alphabet == {"a", "x", "K", ".", "(", ")", " "}
MatchAlphabet == {"a", "K", "."}

\* s is a string over A of at most n characters
IsStr(s, A, n) == \E k \in 0..n : s \in [1..k -> A]

----------------------------------------------------------------------------
(* Sequence helpers *)

Drop(s, n) == SubSeq(s, n + 1, Len(s))

Take(s, n) == SubSeq(s, 1, n)

Min(a, b) == IF a <= b THEN a ELSE b

\* the length of the longest prefix of s whose characters are all in C
RECURSIVE SpanLen(_, _)
SpanLen(s, C) ==
    IF s = <<>> \/ Head(s) \notin C THEN 0 ELSE 1 + SpanLen(Tail(s), C)

\* str.strip(): leading and trailing whitespace removed
RECURSIVE RStrip(_)
RStrip(s) ==
    IF s = <<>> \/ s[Len(s)] \notin Whitespace THEN s ELSE RStrip(Take(s, Len(s) - 1))

Strip(s) == RStrip(Drop(s, SpanLen(s, Whitespace)))

\* s in t
IsSubstring(s, t) ==
    \E i \in 0..(Len(t) - Len(s)) : SubSeq(t, i + 1, i + Len(s)) = s

----------------------------------------------------------------------------
(* normalize_answer_for_match *)

\* re.sub(r"^\s*[a-e①-⑩]\s*[\.．、:：\s]*", "", s)
StripLabel(s) ==
    LET ws == SpanLen(s, Whitespace)
        rest == Drop(s, ws)
    IN  IF rest # <<>> /\ Head(rest) \in LabelGlyphs
        THEN Drop(Tail(rest), SpanLen(Tail(rest), SepGlyphs \cup Whitespace))
        ELSE s

\* re.sub(r"[（(]([^）)]*)[）)]", r"\1", s): leftmost, non-overlapping
RECURSIVE UnwrapParens(_)
UnwrapParens(s) ==
    IF s = <<>> THEN <<>>
    ELSE IF Head(s) \in OpenParens
            /\ \E j \in 2..Len(s) : s[j] \in CloseParens
         THEN LET j == CHOOSE k \in 2..Len(s) :
                          /\ s[k] \in CloseParens
                          /\ \A m \in 2..(k - 1) : s[m] \notin CloseParens
              IN  SubSeq(s, 2, j - 1) \o UnwrapParens(Drop(s, j))
         ELSE <<Head(s)>> \o UnwrapParens(Tail(s))

\* re.sub(r"\s+", "", s)
RemoveWhitespace(s) == SelectSeq(s, LAMBDA ch : ch \notin Whitespace)

normalize_answer_for_match(s) ==
    RemoveWhitespace(UnwrapParens(Strip(StripLabel(s))))

----------------------------------------------------------------------------
(* answers_match *)

MinTokenLen == 2

\* re.findall(r"[一-龥]{2,}|[a-zA-Z]{2,}", s) as a set: the maximal runs of
\* at least MinTokenLen ideographs or of at least MinTokenLen Latin letters
RECURSIVE ContentTokens(_)
ContentTokens(s) ==
    IF s = <<>> THEN {}
    ELSE LET k == SpanLen(s, Ideographs)
             l == SpanLen(s, LatinLetters)
         IN  IF k >= MinTokenLen THEN {Take(s, k)} \cup ContentTokens(Drop(s, k))
             ELSE IF l >= MinTokenLen THEN {Take(s, l)} \cup ContentTokens(Drop(s, l))
             ELSE ContentTokens(Tail(s))

\* the mutated matcher: the token rule is consulted when the length test fails
AnswersMatchFallThrough(a, b) ==
    LET r == normalize_answer_for_match(a)
        c == normalize_answer_for_match(b)
        tokens == ContentTokens(r) \cap ContentTokens(c) # {}
    IN  IF r = <<>> \/ c = <<>> THEN FALSE
        ELSE IF r = c THEN TRUE
        ELSE IF IsSubstring(r, c) THEN 2 * Len(r) >= Len(c) \/ tokens
        ELSE IF IsSubstring(c, r) THEN 2 * Len(c) >= Len(r) \/ tokens
        ELSE tokens

\* the mutated matcher: the second containment test forgets the length test
AnswersMatchOneSided(a, b) ==
    LET r == normalize_answer_for_match(a)
        c == normalize_answer_for_match(b)
    IN  IF r = <<>> \/ c = <<>> THEN FALSE
        ELSE IF r = c THEN TRUE
        ELSE IF IsSubstring(r, c) THEN 2 * Len(r) >= Len(c)
        ELSE IF IsSubstring(c, r) THEN TRUE
        ELSE ContentTokens(r) \cap ContentTokens(c) # {}

\* len(r) >= 0.5 * len(c) is written 2 * len(r) >= len(c)
answers_match(a, b) ==
    LET r == normalize_answer_for_match(a)
        c == normalize_answer_for_match(b)
    IN  IF r = <<>> \/ c = <<>> THEN FALSE
        ELSE IF r = c THEN TRUE
        ELSE IF IsSubstring(r, c) THEN 2 * Len(r) >= Len(c)
        ELSE IF IsSubstring(c, r) THEN 2 * Len(c) >= Len(r)
        ELSE ContentTokens(r) \cap ContentTokens(c) # {}

----------------------------------------------------------------------------
(* Explanation documents.  A document's text is a sequence of non-blank    *)
(* lines; a line is a record:                                              *)
(*   kind "qhead": a line the question-heading pattern of build_lookup     *)
(*                 matches; level hash marks; parts, one per number of the *)
(*                 heading, n the number and pref whether it carries the   *)
(*                 prefix the pattern makes optional after the first       *)
(*   kind "qlike": a heading that starts like a question heading but has   *)
(*                 trailing text, so the heading pattern rejects it        *)
(*   kind "head":  any other heading; sub tells which sub-heading it is    *)
(*                 ("problem_full", "problem_abridged", "problem",         *)
(*                 "choices", "answer" or "other")                         *)
(*   kind "choice": a list line with a bold choice label; spaced tells     *)
(*                 whether a blank follows the hyphen                      *)
(*   kind "rule":  a horizontal rule                                       *)
(*   kind "text":  a line of prose, txt its characters                     *)
(* In prose "*" stands for the bold marker and "-" for a hyphen.           *)
(***************************************************************************)

QHead(level, parts) ==
    [kind |-> "qhead", level |-> level, parts |-> parts, sub |-> "", txt |-> <<>>,
     spaced |-> TRUE]

Heading(level, sub) ==
    [kind |-> "head", level |-> level, parts |-> <<>>, sub |-> sub, txt |-> <<>>,
     spaced |-> TRUE]

QLike(level) ==
    [kind |-> "qlike", level |-> level, parts |-> <<>>, sub |-> "", txt |-> <<>>,
     spaced |-> TRUE]

TextLine(txt) ==
    [kind |-> "text", level |-> 0, parts |-> <<>>, sub |-> "", txt |-> txt,
     spaced |-> TRUE]

ChoiceLine(txt, spaced) ==
    [kind |-> "choice", level |-> 0, parts |-> <<>>, sub |-> "", txt |-> txt,
     spaced |-> spaced]

RuleLine ==
    [kind |-> "rule", level |-> 0, parts |-> <<>>, sub |-> "", txt |-> <<>>,
     spaced |-> TRUE]

Num(n) == [n |-> n, pref |-> TRUE]

BareNum(n) == [n |-> n, pref |-> FALSE]

\* the characters of a line as the extractor's patterns see them; a heading
\* is written as its level and its title
Render(line) ==
    CASE line.kind = "text" -> line.txt
      [] line.kind = "choice" ->
            (IF line.spaced THEN <<"-", " ">> ELSE <<"-">>)
                \o <<"*", "a", ".", "*", " ">> \o line.txt
      [] line.kind = "rule" -> <<"-", "-", "-">>
      [] OTHER -> <<"#", line.kind, line.sub>>

\* "\n".join(lines) with every "\n" replaced by sep
RECURSIVE JoinWith(_, _)
JoinWith(strs, sep) ==
    IF strs = <<>> THEN <<>>
    ELSE IF Len(strs) = 1 THEN strs[1]
    ELSE strs[1] \o sep \o JoinWith(Tail(strs), sep)

RenderAll(lines) == [i \in 1..Len(lines) |-> Render(lines[i])]

\* re.sub(r"\s+", " ", s)
RECURSIVE CollapseWhitespace(_)
CollapseWhitespace(s) ==
    IF s = <<>> THEN <<>>
    ELSE IF Head(s) \in Whitespace
         THEN <<" ">> \o CollapseWhitespace(Drop(s, SpanLen(s, Whitespace)))
         ELSE <<Head(s)>> \o CollapseWhitespace(Tail(s))

----------------------------------------------------------------------------
(* exam_id_from_filename and the file filters of build_lookup *)

FileNames ==
    {"2022H_kaisetsu", "2022S_kaisetsu", "2022H_mondai", "note_kaisetsu", "README"}

\* md_path.name in ("図を含む問題一覧.md", "README.md", "記号問題頻度順.md")
IsExcludedName(name) == name = "README"

\* "問題解説" in md_path.name
HasExplanationMarker(name) ==
    name \in {"2022H_kaisetsu", "2022S_kaisetsu", "note_kaisetsu"}

\* re.match(r"(\d{4})(本|再)試験", name): "" when the name does not match
exam_id_from_filename(name) ==
    CASE name \in {"2022H_kaisetsu", "2022H_mondai"} -> "2022H"
      [] name = "2022S_kaisetsu" -> "2022S"
      [] OTHER -> ""

----------------------------------------------------------------------------
(* parse_question_numbers *)

\* re.split(r"[・、]", heading), then re.search(r"問(\d+)", part) on each part
RECURSIVE parse_question_numbers(_)
parse_question_numbers(parts) ==
    IF parts = <<>> THEN <<>>
    ELSE (IF Head(parts).pref THEN <<Head(parts).n>> ELSE <<>>)
            \o parse_question_numbers(Tail(parts))

----------------------------------------------------------------------------
(* extract_problem_choices_answer, on the lines of a block *)

SubLevels == {3, 4}

\* the lookahead (?=\n#{2,4}\s|\n---|\Z) stops before such a line
EndsSection(line) ==
    \/ line.kind \in {"qhead", "qlike", "head"} /\ line.level \in 2..4
    \/ line.kind = "rule"

\* the lines the group (.+?) takes after the sub-heading at index i: the
\* line after it, whatever it is, and those up to the next section end
SectionLines(block, i) ==
    LET stops == {j \in (i + 2)..Len(block) : EndsSection(block[j])}
        final == IF stops = {} THEN Len(block)
                 ELSE (CHOOSE j \in stops : \A k \in stops : j <= k) - 1
    IN  SubSeq(block, i + 1, final)

\* the first sub-heading `sub` that a line follows, 0 when there is none
FirstSection(block, sub) ==
    LET hits == {i \in 1..(Len(block) - 1) :
                    /\ block[i].kind = "head"
                    /\ block[i].level \in SubLevels
                    /\ block[i].sub = sub}
    IN  IF hits = {} THEN 0 ELSE CHOOSE i \in hits : \A k \in hits : i <= k

\* prob_match.group(1).strip().replace("\n", " ")
SectionText(block, i) ==
    Strip(JoinWith(RenderAll(SectionLines(block, i)), <<" ">>))

ExtractProblem(block) ==
    LET full == FirstSection(block, "problem_full")
        abridged == FirstSection(block, "problem_abridged")
        bare == FirstSection(block, "problem")
    IN  IF full # 0 THEN SectionText(block, full)
        ELSE IF abridged # 0 THEN SectionText(block, abridged)
        ELSE IF bare # 0 THEN SectionText(block, bare)
        ELSE <<>>

\* the run of choice lines that follows the first choices sub-heading which
\* a choice line follows; of each, when it starts with "- ", line[2:].strip()
ExtractChoiceLines(block) ==
    LET hits == {i \in 1..(Len(block) - 1) :
                    /\ block[i].kind = "head"
                    /\ block[i].level \in SubLevels
                    /\ block[i].sub = "choices"
                    /\ block[i + 1].kind = "choice"}
    IN  IF hits = {} THEN <<>>
        ELSE LET i == CHOOSE h \in hits : \A k \in hits : h <= k
                 run == SpanLen([k \in 1..(Len(block) - i) |-> block[i + k].kind],
                                {"choice"})
                 lines == SelectSeq(SubSeq(block, i + 1, i + run),
                                    LAMBDA l : l.spaced)
             IN  [k \in 1..Len(lines) |-> Strip(Drop(Render(lines[k]), 2))]

\* ans_match.group(1).strip().replace("**", ""), then whitespace collapsed
ExtractAnswer(block) ==
    LET i == FirstSection(block, "answer")
    IN  IF i = 0 THEN <<>>
        ELSE CollapseWhitespace(Strip(
                SelectSeq(Strip(JoinWith(RenderAll(SectionLines(block, i)), <<" ">>)),
                          LAMBDA ch : ch # "*")))

extract_problem_choices_answer(text, start, end) ==
    LET block == SubSeq(text, start, end)
    IN  [problem |-> ExtractProblem(block),
         choices |-> JoinWith(ExtractChoiceLines(block), <<" ", "/", " ">>),
         answer |-> ExtractAnswer(block)]

----------------------------------------------------------------------------
(* build_lookup.  by_qnum maps <<exam, qn>> to a sequence of entries and   *)
(* by_exam maps exam to a sequence of entries with their question number;  *)
(* a key is in the domain once something was appended under it.            *)

EmptyIndex == [by_qnum |-> <<>>, by_exam |-> <<>>]

\* defaultdict(list)[k].append(v)
AppendAt(f, k, v) ==
    IF k \in DOMAIN f THEN [f EXCEPT ![k] = Append(@, v)]
    ELSE [x \in DOMAIN f \cup {k} |-> IF x = k THEN <<v>> ELSE f[x]]

IsQuestionStart(line) ==
    line.kind \in {"qhead", "qlike"} /\ line.level \in 2..4

IsSectionStart(line) ==
    line.kind \in {"qhead", "qlike", "head"} /\ line.level \in 2..3

LeastOf(S) == CHOOSE j \in S : \A k \in S : j <= k

\* the index of the line the block after the heading at index i stops before
BlockEnd(text, i) ==
    LET after == (i + 1)..Len(text)
        questions == {j \in after : IsQuestionStart(text[j])}
        sections == {j \in after : IsSectionStart(text[j])}
    IN  IF questions # {} THEN LeastOf(questions)
        ELSE IF sections # {} THEN LeastOf(sections)
        ELSE Len(text) + 1

\* the mutated guard: every block is indexed
IndexAnyBlock(rec) == TRUE

\* if problem or choices
HasContent(rec) == rec.problem # <<>> \/ rec.choices # <<>>

\* the mutated append: a record already listed for the exam is not listed again
AppendEntryOnce(idx, exam, qn, rec) ==
    LET listed == /\ exam \in DOMAIN idx.by_exam
                  /\ \E k \in 1..Len(idx.by_exam[exam]) :
                        /\ idx.by_exam[exam][k].problem = rec.problem
                        /\ idx.by_exam[exam][k].choices = rec.choices
                        /\ idx.by_exam[exam][k].answer = rec.answer
    IN  [by_qnum |-> AppendAt(idx.by_qnum, <<exam, qn>>, rec),
         by_exam |-> IF listed THEN idx.by_exam
                     ELSE AppendAt(idx.by_exam, exam,
                                   [qn |-> qn, problem |-> rec.problem,
                                    choices |-> rec.choices, answer |-> rec.answer])]

\* by_qnum[(exam_id, qn)].append(entry); by_exam[exam_id].append((qn, ...))
AppendEntry(idx, exam, qn, rec) ==
    [by_qnum |-> AppendAt(idx.by_qnum, <<exam, qn>>, rec),
     by_exam |-> AppendAt(idx.by_exam, exam,
                          [qn |-> qn, problem |-> rec.problem,
                           choices |-> rec.choices, answer |-> rec.answer])]

\* for qn in q_nums: if problem or choices: append under both structures
RECURSIVE IndexNumbers(_, _, _, _)
IndexNumbers(idx, exam, q_nums, rec) ==
    IF q_nums = <<>> THEN idx
    ELSE IndexNumbers(IF HasContent(rec)
                      THEN AppendEntry(idx, exam, Head(q_nums), rec)
                      ELSE idx,
                      exam, Tail(q_nums), rec)

\* the body of the loop over the matches of the heading pattern
ScanHeading(idx, exam, text, i) ==
    LET q_nums == parse_question_numbers(text[i].parts)
    IN  IF q_nums = <<>> THEN idx
        ELSE IndexNumbers(idx, exam, q_nums,
                          extract_problem_choices_answer(text, i + 1,
                                                         BlockEnd(text, i) - 1))

\* re.finditer over the text, from line i on
RECURSIVE ScanText(_, _, _, _)
ScanText(idx, exam, text, i) ==
    IF i > Len(text) THEN idx
    ELSE ScanText(IF text[i].kind = "qhead" THEN ScanHeading(idx, exam, text, i)
                  ELSE idx,
                  exam, text, i + 1)

\* the three `continue` statements of the loop over the files
IsSkipped(doc) ==
    \/ IsExcludedName(doc.name)
    \/ ~HasExplanationMarker(doc.name)
    \/ exam_id_from_filename(doc.name) = ""

ScanFile(idx, doc) ==
    IF IsSkipped(doc) THEN idx
    ELSE ScanText(idx, exam_id_from_filename(doc.name), doc.text, 1)

RECURSIVE ScanFiles(_, _)
ScanFiles(idx, docs) ==
    IF docs = <<>> THEN idx ELSE ScanFiles(ScanFile(idx, Head(docs)), Tail(docs))

\* docs: the files in sorted path order
build_lookup(docs) == ScanFiles(EmptyIndex, docs)

----------------------------------------------------------------------------
(* The frequency-index document: a sequence of lines, each a record of     *)
(*   kind "row":     a table row the row pattern of main matches           *)
(*   kind "prob":    "- **問題文** " followed by txt                         *)
(*   kind "choices": "- **選択肢** " followed by txt                         *)
(*   kind "other":   any other line                                        *)

RowLine(exam, qn, ans) ==
    [kind |-> "row", exam |-> exam, qn |-> qn, ans |-> ans, txt |-> <<>>]

ProbLine(txt) ==
    [kind |-> "prob", exam |-> "", qn |-> 0, ans |-> <<>>, txt |-> txt]

ChoicesLine(txt) ==
    [kind |-> "choices", exam |-> "", qn |-> 0, ans |-> <<>>, txt |-> txt]

OtherLine ==
    [kind |-> "other", exam |-> "", qn |-> 0, ans |-> <<>>, txt |-> <<>>]

\* re.sub(r"\n- \*\*<kind>\*\* [^\n]+", "", content): the first line has no
\* newline before it, and [^\n]+ wants at least one character
RemoveAttached(lines, kind) ==
    IF lines = <<>> THEN <<>>
    ELSE <<Head(lines)>>
            \o SelectSeq(Tail(lines), LAMBDA l : ~(l.kind = kind /\ l.txt # <<>>))

\* the mutated strip: the choices lines are left in place
StripProblemOnly(lines) == RemoveAttached(lines, "prob")

StripAttached(lines) == RemoveAttached(RemoveAttached(lines, "prob"), "choices")

format_problem_block(problem, choices) ==
    (IF problem # <<>> THEN <<ProbLine(problem)>> ELSE <<>>)
        \o (IF choices # <<>> THEN <<ChoicesLine(choices)>> ELSE <<>>)

NoMatch == [found |-> FALSE, problem |-> <<>>, choices |-> <<>>]

\* for p, c, a in candidates: if answers_match(row_ans, a): ...; break
FirstMatch(row_answer, candidates) ==
    LET hits == {k \in 1..Len(candidates) :
                    answers_match(row_answer, candidates[k].answer)}
    IN  IF hits = {} THEN NoMatch
        ELSE [found |-> TRUE,
              problem |-> candidates[LeastOf(hits)].problem,
              choices |-> candidates[LeastOf(hits)].choices]

\* by_qnum.get((exam, q_num), [])
ExactCandidates(idx, exam, qn) ==
    IF <<exam, qn>> \in DOMAIN idx.by_qnum THEN idx.by_qnum[<<exam, qn>>] ELSE <<>>

\* the mutated fallback: the lists of all exams are scanned
FallbackAnyExam(idx, exam) ==
    LET exams == DOMAIN idx.by_exam
    IN  IF exams = {} THEN <<>>
        ELSE idx.by_exam[IF exam \in exams THEN exam ELSE CHOOSE e \in exams : TRUE]

\* by_exam[exam], guarded by `exam in by_exam`
FallbackCandidates(idx, exam) ==
    IF exam \in DOMAIN idx.by_exam THEN idx.by_exam[exam] ELSE <<>>

\* the problem text and choices replace_row settles on for a row
Resolve(idx, row) ==
    LET ans == Strip(row.ans)
        exact == FirstMatch(ans, ExactCandidates(idx, row.exam, row.qn))
        fallback == FirstMatch(ans, FallbackCandidates(idx, row.exam))
    IN  IF exact.problem = <<>> /\ fallback.found THEN fallback ELSE exact

\* the lines replace_row returns for a row
replace_row(idx, row) ==
    LET res == Resolve(idx, row)
    IN  <<row>> \o format_problem_block(res.problem, res.choices)

----------------------------------------------------------------------------
(* Idle values of the variables a specification does not use *)

PureIdle ==
    /\ row_ans = <<>>
    /\ cand_ans = <<>>
    /\ prev_ans = <<>>
    /\ norm_calls = 0
    /\ matched = FALSE
    /\ match_fwd = FALSE
    /\ match_rev = FALSE

NotCalled == [called |-> FALSE, row |-> OtherLine, out |-> <<>>]

IndexIdle ==
    /\ corpus = <<>>
    /\ doc_idx = 0
    /\ by_qnum = <<>>
    /\ by_exam = <<>>

MainIdle ==
    /\ content = <<>>
    /\ work = <<>>
    /\ out = <<>>
    /\ line_idx = 0
    /\ last = NotCalled
    /\ runs = 0

----------------------------------------------------------------------------
(* SpecNormalize: normalize_answer_for_match applied to one input, twice,  *)
(* and answers_match applied to a result of it                             *)

InitNormalize ==
    /\ IsStr(row_ans, Alphabet, MaxNormLen)
    /\ cand_ans = <<>>
    /\ prev_ans = <<>>
    /\ norm_calls = 0
    /\ matched = FALSE
    /\ match_fwd = FALSE
    /\ match_rev = FALSE
    /\ IndexIdle /\ MainIdle
    /\ pc = "pure"

\* the normalizer is applied to the string, and again to its result
Normalize ==
    /\ norm_calls < 2
    /\ ~matched
    /\ row_ans' = normalize_answer_for_match(row_ans)
    /\ prev_ans' = row_ans
    /\ norm_calls' = norm_calls + 1
    /\ UNCHANGED <<cand_ans, matched, match_fwd, match_rev, indexVars, mainVars, pc>>

\* the matcher is called on a normalized string and itself
MatchSelf ==
    /\ norm_calls >= 1
    /\ ~matched
    /\ matched' = TRUE
    /\ cand_ans' = row_ans
    /\ match_fwd' = answers_match(row_ans, row_ans)
    /\ match_rev' = answers_match(row_ans, row_ans)
    /\ UNCHANGED <<row_ans, prev_ans, norm_calls, indexVars, mainVars, pc>>

NextNormalize == Normalize \/ MatchSelf

SpecNormalize == InitNormalize /\ [][NextNormalize]_vars

----------------------------------------------------------------------------
(* SpecMatch: answers_match on a pair of inputs *)

InitMatch ==
    /\ IsStr(row_ans, MatchAlphabet, MaxRowLen)
    /\ IsStr(cand_ans, MatchAlphabet, MaxCandLen)
    /\ prev_ans = <<>>
    /\ norm_calls = 0
    /\ matched = FALSE
    /\ match_fwd = FALSE
    /\ match_rev = FALSE
    /\ IndexIdle /\ MainIdle
    /\ pc = "pure"

\* the matcher is called on the pair, in both argument orders
Match ==
    /\ ~matched
    /\ matched' = TRUE
    /\ match_fwd' = answers_match(row_ans, cand_ans)
    /\ match_rev' = answers_match(cand_ans, row_ans)
    /\ UNCHANGED <<row_ans, cand_ans, prev_ans, norm_calls, indexVars, mainVars, pc>>

NextMatch == Match

SpecMatch == InitMatch /\ [][NextMatch]_vars

----------------------------------------------------------------------------
(* SpecIndex: build_lookup over a corpus, one file per step *)

ProblemText == <<"K", "x">>

ChoiceText == <<"x", "K">>

AnswerK == <<"*", "a", ".", "*", " ", "K", "K">>

AnswerX == <<"*", "a", ".", "*", " ", "x", "x">>

\* the pieces the documents of SpecIndex are put together from
IndexChunks ==
    { <<QHead(2, <<Num(1)>>)>>,
      <<QHead(2, <<Num(1), Num(2)>>)>>,
      <<QHead(2, <<Num(1), BareNum(2)>>)>>,
      <<QHead(3, <<Num(2)>>)>>,
      <<Heading(3, "problem"), TextLine(ProblemText)>>,
      <<Heading(4, "problem"), TextLine(ProblemText)>>,
      <<Heading(4, "choices"), ChoiceLine(ChoiceText, TRUE)>>,
      <<Heading(4, "answer"), TextLine(AnswerK)>>,
      <<Heading(2, "other")>> }

\* the lines of a sequence of chunks, one after the other
RECURSIVE Flatten(_)
Flatten(chunks) ==
    IF chunks = <<>> THEN <<>> ELSE Head(chunks) \o Flatten(Tail(chunks))

Doc(name, text) == [name |-> name, text |-> text]

\* a complete question of the main session, under level-4 sub-headings
ExtraDoc ==
    Doc("2022H_kaisetsu",
        <<QHead(2, <<Num(1)>>),
          Heading(4, "problem_full"), TextLine(<<"x">>),
          Heading(4, "choices"), ChoiceLine(<<"K">>, TRUE), ChoiceLine(<<"x">>, FALSE),
          Heading(4, "answer"), TextLine(AnswerX)>>)

\* the corpora of SpecIndex: a file alone, or before or after ExtraDoc
Arrangements(d) == { <<d>>, <<d, ExtraDoc>>, <<ExtraDoc, d>> }

InitIndex ==
    /\ \E name \in FileNames : \E k \in 0..MaxChunks : \E chunks \in [1..k -> IndexChunks] :
          corpus \in Arrangements(Doc(name, Flatten(chunks)))
    /\ doc_idx = 0
    /\ by_qnum = <<>>
    /\ by_exam = <<>>
    /\ PureIdle /\ MainIdle
    /\ pc = "scan"

\* one of the three `continue` statements is taken
SkipFile ==
    /\ pc = "scan"
    /\ doc_idx < Len(corpus)
    /\ IsSkipped(corpus[doc_idx + 1])
    /\ doc_idx' = doc_idx + 1
    /\ UNCHANGED <<corpus, by_qnum, by_exam, pureVars, mainVars, pc>>

\* the headings of the next file are indexed
IndexFile ==
    /\ pc = "scan"
    /\ doc_idx < Len(corpus)
    /\ ~IsSkipped(corpus[doc_idx + 1])
    /\ LET idx == ScanFile([by_qnum |-> by_qnum, by_exam |-> by_exam],
                           corpus[doc_idx + 1])
       IN  /\ by_qnum' = idx.by_qnum
           /\ by_exam' = idx.by_exam
    /\ doc_idx' = doc_idx + 1
    /\ UNCHANGED <<corpus, pureVars, mainVars, pc>>

\* return dict(by_qnum), dict(by_exam)
ReturnLookup ==
    /\ pc = "scan"
    /\ doc_idx = Len(corpus)
    /\ pc' = "built"
    /\ UNCHANGED <<indexVars, pureVars, mainVars>>

NextIndex == SkipFile \/ IndexFile \/ ReturnLookup

SpecIndex == InitIndex /\ [][NextIndex]_vars

----------------------------------------------------------------------------
(* SpecMain: main run on the frequency-index file, then run again on what  *)
(* it wrote.  The rows are single lines; pattern.sub passes the lines that *)
(* are no rows through.                                                    *)

\* answer cells: a labelled parenthetical, and a bare word with a blank
\* the row pattern leaves in the cell
RowAnswerK == <<"a", "(", "K", "K", ")">>

RowAnswerX == <<"x", "x", " ">>

\* rows of the main session, which the corpora may hold, and a row of a
\* session no corpus holds
FreqRows ==
    { RowLine("2022H", 1, RowAnswerK), RowLine("2022H", 2, RowAnswerK),
      RowLine("2022H", 2, RowAnswerX), RowLine("2023S", 1, RowAnswerX) }

\* three questions of the main session: the second has choices and no
\* problem text, and its answer is the answer of the first
DocMain ==
    Doc("2022H_kaisetsu",
        <<QHead(2, <<Num(1)>>),
          Heading(4, "problem"), TextLine(ProblemText),
          Heading(4, "choices"), ChoiceLine(ChoiceText, TRUE), ChoiceLine(<<"x">>, TRUE),
          Heading(4, "answer"), TextLine(AnswerK),
          QHead(2, <<Num(2)>>),
          Heading(4, "choices"), ChoiceLine(<<"K">>, TRUE),
          Heading(4, "answer"), TextLine(AnswerK),
          QHead(2, <<Num(3)>>),
          Heading(4, "problem_abridged"), TextLine(<<"x">>),
          Heading(4, "answer"), TextLine(AnswerX)>>)

\* one question of the second session
DocSecond ==
    Doc("2022S_kaisetsu",
        <<QHead(3, <<Num(1)>>),
          Heading(4, "problem"), TextLine(<<"K">>),
          Heading(4, "choices"), ChoiceLine(<<"x">>, TRUE),
          Heading(4, "answer"), TextLine(AnswerX)>>)

MainCorpora == { <<>>, <<DocMain>>, <<DocSecond>>, <<DocMain, DocSecond>> }

FreqLines ==
    FreqRows \cup {ProbLine(ProblemText), ProbLine(<<>>), ChoicesLine(ChoiceText), OtherLine}

InitMain ==
    /\ corpus \in MainCorpora
    /\ \E k \in 0..MaxFreqLines : content \in [1..k -> FreqLines]
    /\ doc_idx = 0
    /\ by_qnum = <<>>
    /\ by_exam = <<>>
    /\ work = <<>>
    /\ out = <<>>
    /\ line_idx = 0
    /\ last = NotCalled
    /\ runs = 0
    /\ PureIdle
    /\ pc = "start"

\* content = freq_path.read_text(); the two re.sub calls of the strip
ReadAndStrip ==
    /\ pc = "start"
    /\ runs < MaxRuns
    /\ work' = StripAttached(content)
    /\ pc' = "stripped"
    /\ UNCHANGED <<content, out, line_idx, last, runs, indexVars, pureVars>>

\* by_qnum, by_exam = build_lookup(root)
BuildLookup ==
    /\ pc = "stripped"
    /\ LET idx == build_lookup(corpus)
       IN  /\ by_qnum' = idx.by_qnum
           /\ by_exam' = idx.by_exam
    /\ out' = <<>>
    /\ line_idx' = 0
    /\ pc' = "rows"
    /\ UNCHANGED <<corpus, doc_idx, content, work, last, runs, pureVars>>

\* pattern.sub leaves a line that is no row as it is
CopyLine ==
    /\ pc = "rows"
    /\ line_idx < Len(work)
    /\ work[line_idx + 1].kind # "row"
    /\ out' = Append(out, work[line_idx + 1])
    /\ line_idx' = line_idx + 1
    /\ UNCHANGED <<content, work, last, runs, indexVars, pureVars, pc>>

\* pattern.sub calls replace_row on the next row
ReplaceRow ==
    /\ pc = "rows"
    /\ line_idx < Len(work)
    /\ work[line_idx + 1].kind = "row"
    /\ LET lines == replace_row([by_qnum |-> by_qnum, by_exam |-> by_exam],
                                work[line_idx + 1])
       IN  /\ out' = out \o lines
           /\ last' = [called |-> TRUE, row |-> work[line_idx + 1], out |-> lines]
    /\ line_idx' = line_idx + 1
    /\ UNCHANGED <<content, work, runs, indexVars, pureVars, pc>>

\* freq_path.write_text(new_content)
WriteFile ==
    /\ pc = "rows"
    /\ line_idx = Len(work)
    /\ content' = out
    /\ runs' = runs + 1
    /\ pc' = "start"
    /\ UNCHANGED <<work, out, line_idx, last, indexVars, pureVars>>

NextMain == ReadAndStrip \/ BuildLookup \/ CopyLine \/ ReplaceRow \/ WriteFile

SpecMain == InitMain /\ [][NextMain]_vars

----------------------------------------------------------------------------
(* C1: normalize_answer_for_match is idempotent: a second application     *)
(* leaves the result of the first unchanged.                               *)
C1_NormalizeIdempotent ==
    norm_calls = 2 => row_ans = prev_ans

(* C4: answers_match returns true on two equal normalized strings (two    *)
(* equal outputs of normalize_answer_for_match).                           *)
C4_EqualNormalizedMatch ==
    (norm_calls >= 1 /\ matched /\ row_ans = cand_ans /\ row_ans # <<>>)
        => match_fwd = TRUE

\* the inputs of the matcher are in the case the substring rule decides
SubstringCase ==
    /\ matched
    /\ row_ans # <<>> /\ cand_ans # <<>> /\ row_ans # cand_ans
    /\ normalize_answer_for_match(row_ans) = row_ans
    /\ normalize_answer_for_match(cand_ans) = cand_ans
    /\ (IsSubstring(row_ans, cand_ans) \/ IsSubstring(cand_ans, row_ans))

(* C5: for non-empty unequal strings that normalization leaves unchanged, *)
(* one a substring of the other, answers_match is true exactly when twice  *)
(* the shorter length is at least the longer length, whatever tokens the   *)
(* two strings share.                                                      *)
C5_SubstringThreshold ==
    SubstringCase =>
        LET short == Min(Len(row_ans), Len(cand_ans))
            long == Len(row_ans) + Len(cand_ans) - short
        IN  match_fwd = (2 * short >= long)

\* the length test fails although the two strings share a content token
C5_Witness ==
    /\ SubstringCase
    /\ ContentTokens(row_ans) \cap ContentTokens(cand_ans) # {}
    /\ 2 * Len(row_ans) < Len(cand_ans)
    /\ match_fwd = FALSE

(* C6: answers_match is symmetric in its two arguments.                    *)
C6_MatchSymmetric ==
    matched => match_fwd = match_rev

\* a pair the substring rule accepts, in both argument orders
C6_Witness ==
    /\ match_fwd = TRUE /\ match_rev = TRUE
    /\ row_ans # cand_ans
    /\ IsSubstring(normalize_answer_for_match(row_ans),
                   normalize_answer_for_match(cand_ans))

----------------------------------------------------------------------------
(* Claims about build_lookup, under SpecIndex *)

TheIndex == [by_qnum |-> by_qnum, by_exam |-> by_exam]

\* the files the loop of build_lookup has indexed so far
ScannedDocs == {d \in 1..doc_idx : ~IsSkipped(corpus[d])}

QHeadsOf(text) == {i \in 1..Len(text) : text[i].kind = "qhead"}

RecordAt(text, i) ==
    extract_problem_choices_answer(text, i + 1, BlockEnd(text, i) - 1)

InExact(exam, qn, rec) ==
    /\ <<exam, qn>> \in DOMAIN by_qnum
    /\ \E k \in 1..Len(by_qnum[<<exam, qn>>]) : by_qnum[<<exam, qn>>][k] = rec

InExam(exam, qn, rec) ==
    /\ exam \in DOMAIN by_exam
    /\ \E k \in 1..Len(by_exam[exam]) :
          by_exam[exam][k] = [qn |-> qn, problem |-> rec.problem,
                              choices |-> rec.choices, answer |-> rec.answer]

(* C3: every question number a matched heading declares is indexed: the   *)
(* record of the heading's block is under by_qnum[(exam, n)] and with n in *)
(* by_exam[exam], for every number n of the heading, prefixed or not.      *)
C3_AllDeclaredNumbersIndexed ==
    \A d \in ScannedDocs :
        LET text == corpus[d].text
            exam == exam_id_from_filename(corpus[d].name)
        IN  \A i \in QHeadsOf(text) :
                LET rec == RecordAt(text, i)
                IN  (rec.problem # <<>> \/ rec.choices # <<>>) =>
                        \A k \in 1..Len(text[i].parts) :
                            /\ InExact(exam, text[i].parts[k].n, rec)
                            /\ InExam(exam, text[i].parts[k].n, rec)

(* C8: no entry of by_qnum and no entry of by_exam has both an empty      *)
(* problem text and an empty choices string.                               *)
C8_EmptyBlockNotIndexed ==
    /\ \A key \in DOMAIN by_qnum : \A k \in 1..Len(by_qnum[key]) :
          ~(by_qnum[key][k].problem = <<>> /\ by_qnum[key][k].choices = <<>>)
    /\ \A e \in DOMAIN by_exam : \A k \in 1..Len(by_exam[e]) :
          ~(by_exam[e][k].problem = <<>> /\ by_exam[e][k].choices = <<>>)

\* a scanned heading with two numbers whose block holds an answer only
C8_Witness ==
    /\ pc = "built"
    /\ \E d \in ScannedDocs : \E i \in QHeadsOf(corpus[d].text) :
          /\ Len(parse_question_numbers(corpus[d].text[i].parts)) >= 2
          /\ RecordAt(corpus[d].text, i).problem = <<>>
          /\ RecordAt(corpus[d].text, i).choices = <<>>
          /\ RecordAt(corpus[d].text, i).answer # <<>>

WithoutNumber(entries) ==
    [k \in 1..Len(entries) |->
        [problem |-> entries[k].problem, choices |-> entries[k].choices,
         answer |-> entries[k].answer]]

(* C9: by_qnum and by_exam hold the same records: the entries under       *)
(* by_qnum[(exam, qn)] are, in the same order, the entries of by_exam[exam]*)
(* with question number qn, and every entry of by_exam[exam] is under the  *)
(* key of its question number.                                             *)
C9_IndexConsistent ==
    /\ \A key \in DOMAIN by_qnum :
          /\ key[1] \in DOMAIN by_exam
          /\ by_qnum[key] =
                WithoutNumber(SelectSeq(by_exam[key[1]], LAMBDA en : en.qn = key[2]))
    /\ \A e \in DOMAIN by_exam : \A k \in 1..Len(by_exam[e]) :
          <<e, by_exam[e][k].qn>> \in DOMAIN by_qnum

\* two files have put records of an exam under two question numbers
C9_Witness ==
    /\ pc = "built"
    /\ Cardinality(ScannedDocs) = 2
    /\ \E e \in DOMAIN by_exam :
          /\ Len(by_exam[e]) >= 3
          /\ \E k \in 1..Len(by_exam[e]) : by_exam[e][k].qn # by_exam[e][1].qn

\* the line the claimed block of the heading at index i stops before: the next
\* question heading at the same or a shallower level, else the next heading
\* of a strictly shallower level, else the end of the document
ClaimedBlockEnd(text, i) ==
    LET after == (i + 1)..Len(text)
        questions == {j \in after : /\ text[j].kind \in {"qhead", "qlike"}
                                    /\ text[j].level <= text[i].level}
        shallower == {j \in after : /\ text[j].kind \in {"qhead", "qlike", "head"}
                                    /\ text[j].level < text[i].level}
    IN  IF questions # {} THEN LeastOf(questions)
        ELSE IF shallower # {} THEN LeastOf(shallower)
        ELSE Len(text) + 1

(* C11: for every question heading build_lookup has found, the block handed *)
(* to the extractor stops before the next question heading at the same or a *)
(* shallower level, else before the next heading of a strictly shallower    *)
(* level, else at the end of the document; a sub-heading or a deeper        *)
(* question heading inside the block does not end it.                       *)
C11_BlockBoundary ==
    \A d \in ScannedDocs :
        LET text == corpus[d].text
        IN  \A i \in QHeadsOf(text) :
                parse_question_numbers(text[i].parts) # <<>> =>
                    BlockEnd(text, i) = ClaimedBlockEnd(text, i)


----------------------------------------------------------------------------
(* Claims about replace_row and main, under SpecMain *)

(* C2: when a candidate under by_qnum[(row.exam, row.qn)] has an answer   *)
(* that matches the row's, replace_row attaches the problem text and the   *)
(* choices of the first such candidate, whatever by_exam[row.exam] holds.  *)
C2_ExactKeyPreferred ==
    last.called =>
        LET exact == FirstMatch(Strip(last.row.ans),
                                ExactCandidates(TheIndex, last.row.exam, last.row.qn))
        IN  exact.found =>
                last.out = <<last.row>>
                              \o format_problem_block(exact.problem, exact.choices)

(* C7: a run of main on the output of a run of main writes the file it    *)
(* read: the strip removes the attached lines and the rows get the same    *)
(* lines again.                                                            *)
C7_RerunWritesSame ==
    [][(pc = "rows" /\ pc' = "start" /\ runs >= 1) => content' = content]_vars

\* the second run has written a file with an annotated row
C7_Witness ==
    /\ runs = 2
    /\ \E i \in 1..(Len(content) - 2) :
          /\ content[i].kind = "row"
          /\ content[i + 1].kind = "prob"
          /\ content[i + 2].kind = "choices"

\* the exam of the row is no key of by_exam and in no key of by_qnum
ExamMissing(exam) ==
    /\ exam \notin DOMAIN by_exam
    /\ \A key \in DOMAIN by_qnum : key[1] # exam

(* C10: for a row whose exam has no entry in the index, replace_row       *)
(* returns the row line alone, with no line attached.                      *)
C10_MissingExamUnchanged ==
    (last.called /\ ExamMissing(last.row.exam)) => last.out = <<last.row>>

\* such a row was resolved against an index that holds, under another exam,
\* an answer that matches the row's
C10_Witness ==
    /\ last.called
    /\ ExamMissing(last.row.exam)
    /\ last.out = <<last.row>>
    /\ \E e \in DOMAIN by_exam : \E k \in 1..Len(by_exam[e]) :
          answers_match(Strip(last.row.ans), by_exam[e][k].answer)

====
